---- MODULE Spec2Model ----
(***************************************************************************)
(* Model of examples/SuperResolution/ODM-ModelNet/train_Direct.py: the     *)
(* command-line arguments, the Engine object (train / validate / save) and *)
(* the main epoch loop, together with the model / optimizer objects and    *)
(* the checkpoint files the loop writes into args.logdir.                  *)
(*                                                                         *)
(* Tensors are abstracted: the model parameters are a version number that  *)
(* optimizer.step advances, the optimizer state is its step count, the     *)
(* gradient buffer is the number of backward passes accumulated since the  *)
(* last zero_grad.  Per-batch losses and IoU values are drawn from small   *)
(* sets; epoch means are exact rationals in lowest terms.                  *)
(***************************************************************************)
EXTENDS Integers, Sequences, FiniteSets, TLC

\* ---- bounds of the model ----
MaxEpochs == 2
MaxBatches == 2

\* values -epochs may take: range(N) is empty for N <= 0
EpochsVals == -1 .. MaxEpochs
\* values -val-every may take
ValEveryVals == {1, 2}
\* values -print-every may take (0 makes i % args.print_every raise)
PrintEveryVals == {0, 2}
\* number of batches a data loader yields in one pass
BatchCounts == 0 .. MaxBatches
\* loss.item() of one training batch (MSE, non-negative)
LossVals == {1, 2}
\* kal.metrics.voxel.iou of one validation batch (a ratio in [0, 1])
IouVals == {0, 1}

\* a file that does not exist; the content x of an existing file is <<x>>
NoFile == <<>>
FileNames == {"recent.pth", "recent_optim.pth", "recent.log",
              "best.pth", "best_optim.pth", "best.log"}

VARIABLES
    epochs, val_every, print_every, save_model,   \* args
    nTrain, nVal, loader_faulty,                  \* dataloader_train / dataloader_val
    pc, epoch,                                    \* position in the script, loop index
    cur_epoch, train_loss, val_loss, bestval,     \* Engine fields
    params, optim, grad, training,                \* model / optimizer
    i, num_batches, loss_epoch, iou_epoch,        \* locals of train / validate
    save_best, log_table,                         \* locals of save
    files,                                        \* contents of args.logdir
    trace, recentHist, iouSeen                    \* history: calls made, recent.* sets written,
                                                  \* IoUs of the batches of the current validate

args == <<epochs, val_every, print_every, save_model>>
loaders == <<nTrain, nVal, loader_faulty>>
engine == <<cur_epoch, train_loss, val_loss, bestval>>
net == <<params, optim, grad, training>>
locals == <<i, num_batches, loss_epoch, iou_epoch>>
saveLocals == <<save_best, log_table>>
hist == <<trace, recentHist, iouSeen>>
vars == <<args, loaders, pc, epoch, engine, net, locals, saveLocals, files, hist>>

\* ---- arithmetic on epoch means ----
RECURSIVE GCD(_, _)
GCD(a, b) == IF b = 0 THEN a ELSE GCD(b, a % b)

\* x / n of Python for n > 0, as a fraction in lowest terms
Div(x, n) == LET g == GCD(x, n) IN
             IF x = 0 THEN [num |-> 0, den |-> 1]
                      ELSE [num |-> x \div g, den |-> n \div g]

\* a >= b
Geq(a, b) == a.num * b.den >= b.num * a.den

\* np.min(np.asarray(s)) for a non-empty list
NpMin(s) == CHOOSE x \in {s[k] : k \in 1 .. Len(s)} :
                \A y \in {s[k] : k \in 1 .. Len(s)} : Geq(y, x)

Last(s) == s[Len(s)]

NoTable == [epoch |-> -1]

\* ---- Engine.__init__ and the module-level setup ----
Init ==
    /\ epochs \in EpochsVals
    /\ val_every \in ValEveryVals
    /\ print_every \in PrintEveryVals
    /\ save_model \in BOOLEAN
    /\ nTrain \in BatchCounts
    /\ nVal \in BatchCounts
    /\ loader_faulty \in BOOLEAN
    /\ pc = "loop"
    /\ epoch = 0
    /\ cur_epoch = 0
    /\ train_loss = <<>>
    /\ val_loss = <<>>
    /\ bestval = [num |-> 0, den |-> 1]
    /\ params = 0
    /\ optim = 0
    /\ grad = 0
    /\ training = TRUE
    /\ i = 0
    /\ num_batches = 0
    /\ loss_epoch = 0
    /\ iou_epoch = 0
    /\ save_best = FALSE
    /\ log_table = NoTable
    /\ files = [f \in FileNames |-> NoFile]
    /\ trace = <<>>
    /\ recentHist = {}
    /\ iouSeen = <<>>

\* ---- main loop ----
\* LoopNext with the range test off by one (one iteration too many)
LoopNext_OffByOne ==
    /\ pc = "loop"
    /\ epoch <= epochs
    /\ pc' = "call_train"
    /\ UNCHANGED <<args, loaders, epoch, engine, net, locals, saveLocals, files, hist>>

\* for epoch in range(args.epochs): next iteration
LoopNext ==
    /\ pc = "loop"
    /\ epoch < epochs
    /\ pc' = "call_train"
    /\ UNCHANGED <<args, loaders, epoch, engine, net, locals, saveLocals, files, hist>>

\* for epoch in range(args.epochs): range exhausted, the script ends
LoopExit ==
    /\ pc = "loop"
    /\ ~(epoch < epochs)
    /\ pc' = "done"
    /\ UNCHANGED <<args, loaders, epoch, engine, net, locals, saveLocals, files, hist>>

\* ---- Engine.train ----
\* entry: locals initialised, model.train()
TrainBegin ==
    /\ pc = "call_train"
    /\ loss_epoch' = 0
    /\ num_batches' = 0
    /\ i' = 0
    /\ training' = TRUE
    /\ trace' = Append(trace, <<"train", epoch>>)
    /\ pc' = "train_for"
    /\ UNCHANGED <<args, loaders, epoch, engine, params, optim, grad, iou_epoch,
                   saveLocals, files, recentHist, iouSeen>>

\* TrainZeroGrad without the call of optimizer.zero_grad()
TrainZeroGrad_Missing ==
    /\ pc = "train_for"
    /\ i < nTrain
    /\ grad' = grad
    /\ pc' = "train_backward"
    /\ UNCHANGED <<args, loaders, epoch, engine, params, optim, training, locals,
                   saveLocals, files, hist>>

\* the loader yields batch i; optimizer.zero_grad()
TrainZeroGrad ==
    /\ pc = "train_for"
    /\ i < nTrain
    /\ grad' = 0
    /\ pc' = "train_backward"
    /\ UNCHANGED <<args, loaders, epoch, engine, params, optim, training, locals,
                   saveLocals, files, hist>>

\* forward pass, loss.backward(), accumulation, the print test of the batch
TrainBackward ==
    /\ pc = "train_backward"
    /\ \E loss \in LossVals :
          /\ grad' = grad + 1
          /\ loss_epoch' = loss_epoch + loss
          /\ num_batches' = num_batches + 1
    /\ pc' = IF print_every = 0 THEN "failed" ELSE "train_step"
    /\ UNCHANGED <<args, loaders, epoch, engine, params, optim, training, i, iou_epoch,
                   saveLocals, files, hist>>

\* optimizer.step(), then on to the next batch
TrainStep ==
    /\ pc = "train_step"
    /\ params' = params + 1
    /\ optim' = optim + 1
    /\ i' = i + 1
    /\ pc' = "train_for"
    /\ UNCHANGED <<args, loaders, epoch, engine, grad, training, num_batches,
                   loss_epoch, iou_epoch, saveLocals, files, hist>>

\* the loader raises while fetching a batch
TrainLoaderRaise ==
    /\ pc = "train_for"
    /\ i < nTrain
    /\ loader_faulty
    /\ pc' = "failed"
    /\ UNCHANGED <<args, loaders, epoch, engine, net, locals, saveLocals, files, hist>>

\* TrainEnd with the epoch counted before the average is taken
TrainEnd_CountsFirst ==
    /\ pc = "train_for"
    /\ ~(i < nTrain)
    /\ cur_epoch' = cur_epoch + 1
    /\ IF num_batches = 0
         THEN /\ pc' = "failed"
              /\ UNCHANGED <<train_loss, val_loss, bestval, locals>>
         ELSE /\ train_loss' = Append(train_loss, Div(loss_epoch, num_batches))
              /\ pc' = "call_validate"
              /\ i' = 0
              /\ num_batches' = 0
              /\ loss_epoch' = 0
              /\ UNCHANGED <<val_loss, bestval, iou_epoch>>
    /\ UNCHANGED <<args, loaders, epoch, net, saveLocals, files, hist>>

\* loop exhausted: average, append, count the epoch, return
TrainEnd ==
    /\ pc = "train_for"
    /\ ~(i < nTrain)
    /\ IF num_batches = 0
         THEN /\ pc' = "failed"
              /\ UNCHANGED <<engine, locals>>
         ELSE /\ train_loss' = Append(train_loss, Div(loss_epoch, num_batches))
              /\ cur_epoch' = cur_epoch + 1
              /\ pc' = "call_validate"
              /\ i' = 0
              /\ num_batches' = 0
              /\ loss_epoch' = 0
              /\ UNCHANGED <<val_loss, bestval, iou_epoch>>
    /\ UNCHANGED <<args, loaders, epoch, net, saveLocals, files, hist>>

\* ---- Engine.validate ----
\* entry: model.eval(), torch.no_grad(), locals initialised
ValidateBegin ==
    /\ pc = "call_validate"
    /\ training' = FALSE
    /\ iou_epoch' = 0
    /\ num_batches' = 0
    /\ loss_epoch' = 0
    /\ i' = 0
    /\ trace' = Append(trace, <<"validate", epoch>>)
    /\ iouSeen' = <<>>
    /\ pc' = "val_for"
    /\ UNCHANGED <<args, loaders, epoch, engine, params, optim, grad,
                   saveLocals, files, recentHist>>

\* one validation batch: inference, IoU accumulation, the print test
ValBatch ==
    /\ pc = "val_for"
    /\ i < nVal
    /\ \E iou \in IouVals :
          /\ iou_epoch' = iou_epoch + iou
          /\ iouSeen' = Append(iouSeen, iou)
    /\ num_batches' = num_batches + 1
    /\ IF print_every = 0
         THEN pc' = "failed" /\ i' = i
         ELSE pc' = "val_for" /\ i' = i + 1
    /\ UNCHANGED <<args, loaders, epoch, engine, net, loss_epoch,
                   saveLocals, files, trace, recentHist>>

\* the loader raises while fetching a batch
ValLoaderRaise ==
    /\ pc = "val_for"
    /\ i < nVal
    /\ loader_faulty
    /\ pc' = "failed"
    /\ UNCHANGED <<args, loaders, epoch, engine, net, locals, saveLocals, files, hist>>

\* loop exhausted: mean IoU appended to val_loss, return
ValidateEnd ==
    /\ pc = "val_for"
    /\ ~(i < nVal)
    /\ IF num_batches = 0
         THEN /\ pc' = "failed"
              /\ UNCHANGED <<engine, locals>>
         ELSE /\ val_loss' = Append(val_loss, Div(iou_epoch, num_batches))
              /\ pc' = "call_save"
              /\ i' = 0
              /\ num_batches' = 0
              /\ iou_epoch' = 0
              /\ UNCHANGED <<cur_epoch, train_loss, bestval, loss_epoch>>
    /\ UNCHANGED <<args, loaders, epoch, net, saveLocals, files, hist>>

\* ---- Engine.save ----
\* the dictionary save() serialises
LogTable == [epoch |-> cur_epoch,
             bestval |-> NpMin(val_loss),
             train_loss |-> train_loss,
             val_loss |-> val_loss]

\* best-value test, log table, then the three recent.* files
SaveRecent ==
    /\ pc = "call_save"
    /\ save_best' = Geq(Last(val_loss), bestval)
    /\ bestval' = IF save_best' THEN Last(val_loss) ELSE bestval
    /\ log_table' = LogTable
    /\ files' = [files EXCEPT !["recent.pth"] = <<params>>,
                              !["recent_optim.pth"] = <<optim>>,
                              !["recent.log"] = <<log_table'>>]
    /\ trace' = Append(trace, <<"save", epoch>>)
    /\ recentHist' = recentHist \cup {<<params, optim, log_table'>>}
    /\ pc' = "save_if_best"
    /\ UNCHANGED <<args, loaders, epoch, cur_epoch, train_loss, val_loss, net, locals,
                   iouSeen>>

\* SaveBest that forgets the optimizer snapshot
SaveBest_NoOptim ==
    /\ pc = "save_if_best"
    /\ files' = IF save_best
                  THEN [files EXCEPT !["best.pth"] = <<params>>,
                                     !["best.log"] = <<log_table>>]
                  ELSE files
    /\ save_best' = FALSE
    /\ log_table' = NoTable
    /\ epoch' = epoch + 1
    /\ pc' = "loop"
    /\ UNCHANGED <<args, loaders, engine, net, locals, hist>>

\* if save_best: the three best.* files; return to the loop head
SaveBest ==
    /\ pc = "save_if_best"
    /\ files' = IF save_best
                  THEN [files EXCEPT !["best.pth"] = <<params>>,
                                     !["best_optim.pth"] = <<optim>>,
                                     !["best.log"] = <<log_table>>]
                  ELSE files
    /\ save_best' = FALSE
    /\ log_table' = NoTable
    /\ epoch' = epoch + 1
    /\ pc' = "loop"
    /\ UNCHANGED <<args, loaders, engine, net, locals, hist>>

Next ==
    \/ LoopNext
    \/ LoopExit
    \/ TrainBegin
    \/ TrainZeroGrad
    \/ TrainBackward
    \/ TrainStep
    \/ TrainLoaderRaise
    \/ TrainEnd
    \/ ValidateBegin
    \/ ValBatch
    \/ ValLoaderRaise
    \/ ValidateEnd
    \/ SaveRecent
    \/ SaveBest

Spec == Init /\ [][Next]_vars

\* the interpreter runs the script on as long as a statement is left to run
FairSpec == Spec /\ WF_vars(Next)

\* ======================================================================
\* Properties
\* ======================================================================
TrainPcs == {"train_for", "train_backward", "train_step"}
ValPcs == {"val_for"}

CallNames == <<"train", "validate", "save">>
\* the k-th call of a run that follows the train, validate, save cycle
ExpectedCall(k) == <<CallNames[((k - 1) % 3) + 1], (k - 1) \div 3>>
\* number of iterations range(args.epochs) yields
NumEpochs == IF epochs > 0 THEN epochs ELSE 0
\* nothing in the run can raise: loaders raise nothing and yield at least one
\* batch, and the print test does not divide by zero
NoRaise == ~loader_faulty /\ nTrain > 0 /\ nVal > 0 /\ print_every # 0

RecentOf(fs) == <<fs["recent.pth"], fs["recent_optim.pth"], fs["recent.log"]>>
BestOf(fs) == <<fs["best.pth"], fs["best_optim.pth"], fs["best.log"]>>

RECURSIVE SumSeq(_)
SumSeq(s) == IF s = <<>> THEN 0 ELSE s[1] + SumSeq(Tail(s))

\* the calls made so far are a prefix of the train, validate, save cycle of
\* NumEpochs iterations, and the position in the script agrees with it
C1Inv ==
    /\ \A k \in 1 .. Len(trace) : trace[k] = ExpectedCall(k)
    /\ Len(trace) <= 3 * NumEpochs
    /\ epoch <= NumEpochs
    /\ pc \in {"loop", "call_train"} => Len(trace) = 3 * epoch
    /\ pc \in TrainPcs \cup {"call_validate"} => Len(trace) = 3 * epoch + 1
    /\ pc \in ValPcs \cup {"call_save"} => Len(trace) = 3 * epoch + 2
    /\ pc = "save_if_best" => Len(trace) = 3 * epoch + 3
    /\ pc = "done" => Len(trace) = 3 * NumEpochs /\ epoch = NumEpochs
    /\ epochs <= 0 => trace = <<>>
    /\ NoRaise => pc # "failed"
    /\ pc \notin {"done", "failed"} => ENABLED Next

C2_ValidateEveryV ==
    \A j, k \in 1 .. Len(trace) :
        (j < k /\ trace[j][1] = "validate" /\ trace[k][1] = "validate")
            => trace[k][2] - trace[j][2] >= val_every

\* C3: the checkpoints are written in a run with -save-model and are not
\* written in a run without it.
C3_SaveModelFlag ==
    /\ (save_model /\ pc = "done" /\ epochs > 0) =>
           \A f \in {"recent.pth", "recent_optim.pth", "best.pth", "best_optim.pth"} :
               files[f] # NoFile
    /\ ~save_model =>
           \A f \in {"recent.pth", "recent_optim.pth", "best.pth", "best_optim.pth"} :
               files[f] = NoFile

\* the state of a failed run stays as it is, and the step that fails
\* in iteration e changes neither the files nor the lists nor the calls made
C4Step ==
    /\ pc = "failed" => UNCHANGED vars
    /\ (pc # "failed" /\ pc' = "failed") =>
          /\ pc \in TrainPcs \cup ValPcs
          /\ files' = files
          /\ train_loss' = train_loss
          /\ val_loss' = val_loss
          /\ trace' = trace
          /\ epoch' = epoch
          /\ pc \in TrainPcs =>
                /\ cur_epoch' = cur_epoch
                /\ cur_epoch' = epoch'
                /\ Len(train_loss') = epoch'
                /\ Len(val_loss') = epoch'
          /\ pc \in ValPcs =>
                /\ Len(train_loss') = epoch' + 1
                /\ Len(val_loss') = epoch'
          /\ Cardinality({k \in 1 .. Len(trace') : trace'[k][1] = "save"}) = epoch'
          /\ epoch' = 0 => \A f \in FileNames : files'[f] = NoFile
          /\ epoch' > 0 => /\ files'["recent.log"] # NoFile
                           /\ files'["recent.log"][1].epoch = epoch'
                           /\ RecentOf(files') \in
                                 {<<(<<r[1]>>), (<<r[2]>>), (<<r[3]>>)>> : r \in recentHist'}

\* C4: an exception raised in train or validate of iteration e ends the run:
\* save is not called for iteration e, nothing happens afterwards, the failing
\* call appends nothing to train_loss / val_loss, a failing train leaves
\* cur_epoch unchanged, and the files are those iteration e-1 left.
C4_FailurePropagates == [][C4Step]_vars

\* a run failed in its second iteration, with the files of the first in place
C4_Witness == pc = "failed" /\ epoch = 1 /\ files["recent.pth"] # NoFile

C5Step ==
    /\ pc = "call_save" =>
          /\ pc' = "save_if_best"
          /\ files'["recent.pth"] = <<params>>
          /\ files'["recent_optim.pth"] = <<optim>>
          /\ files'["recent.log"] = <<LogTable>>
          /\ BestOf(files') = BestOf(files)
    /\ RecentOf(files') # RecentOf(files) => pc = "call_save"
    /\ BestOf(files') # BestOf(files) =>
          /\ pc = "save_if_best"
          /\ RecentOf(files) = <<(<<params>>), (<<optim>>), (<<log_table>>)>>
    /\ pc = "save_if_best" =>
          /\ RecentOf(files') = RecentOf(files)
          /\ save_best => BestOf(files') = RecentOf(files')
          /\ ~save_best => BestOf(files') = BestOf(files)
          /\ BestOf(files') \in
                {<<(<<r[1]>>), (<<r[2]>>), (<<r[3]>>)>> : r \in recentHist'}

\* C5: every save writes recent.pth, recent_optim.pth and recent.log from the
\* current model, optimizer and log table, whatever the validation result, and
\* before it touches a best.* file; when the call overwrites the best.* files
\* they equal the recent.* files it has just written; after a save the best.*
\* set is the recent.* set of this or an earlier save.
C5_RecentThenBest == [][C5Step]_vars

\* two saves were made and the second did not overwrite the best.* files
C5_Witness ==
    /\ pc = "loop"
    /\ epoch = 2
    /\ files["best.pth"] # NoFile
    /\ BestOf(files) # RecentOf(files)

C6Step ==
    /\ pc \in ValPcs \cup {"call_validate"} =>
          /\ params' = params
          /\ optim' = optim
          /\ grad' = grad
          /\ train_loss' = train_loss
          /\ cur_epoch' = cur_epoch
          /\ bestval' = bestval
          /\ IF pc' = "call_save"
               THEN /\ Len(iouSeen) = nVal
                    /\ val_loss' = Append(val_loss, Div(SumSeq(iouSeen), Len(iouSeen)))
               ELSE val_loss' = val_loss
    /\ pc \in TrainPcs \cup {"call_train"} =>
          /\ val_loss' = val_loss
          /\ bestval' = bestval
    /\ grad' > grad => pc = "train_backward" /\ grad = 0
    /\ optim' # optim => /\ pc = "train_step"
                         /\ grad = 1
                         /\ optim' = optim + 1
                         /\ params' = params + 1
    /\ params' # params => optim' # optim
    /\ pc' \in TrainPcs => optim' = cur_epoch' * nTrain + i'
    /\ (pc \in TrainPcs /\ pc' = "call_validate") => optim' = cur_epoch' * nTrain

\* C6: validate makes no backward pass and no optimizer step, leaves the
\* parameters, the optimizer state, train_loss, cur_epoch and bestval as they
\* are and, when it returns, has appended exactly one entry to val_loss, the
\* mean of the IoUs of its batches; train zeroes the gradient before the
\* backward pass of each batch and steps the optimizer once after it, so that
\* the number of steps equals the number of batches processed, and leaves
\* val_loss and bestval as they are.
C6_TrainStepsValidateInfers == [][C6Step]_vars

\* validate has returned after a train of two batches
C6_Witness ==
    /\ pc = "call_save"
    /\ nTrain = 2
    /\ optim = 2
    /\ Len(iouSeen) = 2
    /\ Len(val_loss) = 1

====
